---------------------------- MODULE Spec2Model ----------------------------
(***************************************************************************)
(* Mesh-processing engine of cpp-opengl-viewport: the Mesh (vertex and     *)
(* index sequences), vertex-normal accumulation, one-to-four midpoint      *)
(* subdivision and the parallel triangle-area statistics.                  *)
(*                                                                         *)
(* Arithmetic.  Positions are integer multiples of 2^-MaxSubdiv of the     *)
(* mesh-file unit (a coordinate c of the file is stored as c * Unit), so   *)
(* that the midpoints of MaxSubdiv successive subdivisions are exact, as   *)
(* the multiplication by 0.5f is in binary floating point.  Areas and      *)
(* their averages are exact rationals <<n, d>>; rounding is not modelled.  *)
(***************************************************************************)
EXTENDS Integers, Sequences, FiniteSets, TLC

VARIABLES
    vertices,       \* Mesh::vertices : Seq([position, normal])
    indices,        \* Mesh::indices  : Seq(Int), 0-based vertex ids
    preVertices,    \* Mesh::vertices at entry of the latest Subdivide call
    preIndices,     \* Mesh::indices at entry of the latest Subdivide call
    subdivisions,   \* number of Subdivide calls made on this mesh
    hardwareConcurrency, \* what std::thread::hardware_concurrency() returns
    callPc,         \* the caller's position in Mesh::CalculateStatistics
    triangleCount,  \* CalculateStatistics: int triangleCount
    threadCount,    \* CalculateStatistics: uint threadCount
    start,          \* CalculateStatistics: int start
    loopI,          \* CalculateStatistics: the i of the spawning loop
    futures,        \* triangleStatsFutures: one worker task per entry
    aggregator,     \* the detached thread that reduces the futures
    meshStatistics, \* main: TriangleStatistics meshStatistics (the result slot)
    didCalculateStats, \* main: bool didCalculateStats (the done flag)
    isCalculatingStats, \* main: bool isCalculatingStats
    meshIsNull,     \* main: std::unique_ptr<Mesh> mesh holds no Mesh yet
    meshFile,       \* the mesh file the Mesh was constructed from
    loaders,        \* the detached loadMesh threads: the file each one loads
    didLoadMesh,    \* main: bool didLoadMesh
    isLoadingMesh,  \* main: bool isLoadingMesh
    selections,     \* number of mesh selections made in the mesh picker
    programPc,      \* the process: "running", "exited" (exit(1)) or "crashed"
    errorMessage,   \* what the process has written to std::cerr
    outOfBounds,    \* the sequences that have been accessed outside their storage
    callVertices,   \* Mesh::vertices as the latest CalculateStatistics found it
    callIndices,    \* Mesh::indices as the latest CalculateStatistics found it
    lateStores,     \* results that earlier aggregator threads have yet to write
    point,          \* main: static float point[3]
    rayOrigin,      \* Mesh::IsPointInside: rayOrigin (p) of the latest call
    isPointInside,  \* main: bool isPointInside
    didCalculatePoint \* main: bool didCalculatePoint

meshVars == <<vertices, indices>>
subVars == <<preVertices, preIndices, subdivisions>>
callVars == <<callPc, triangleCount, threadCount, start, loopI>>
statVars == <<hardwareConcurrency, callPc, triangleCount, threadCount, start,
              loopI, futures, aggregator, meshStatistics, didCalculateStats>>
loadVars == <<meshIsNull, meshFile, loaders, didLoadMesh, isLoadingMesh,
              selections, programPc, errorMessage, outOfBounds>>
raceVars == <<callVertices, callIndices, lateStores>>
pointVars == <<point, rayOrigin, isPointInside, didCalculatePoint>>
\* what the steps inside CalculateStatistics and its threads leave alone
otherVars == <<isCalculatingStats, loadVars, raceVars, pointVars>>

-----------------------------------------------------------------------------
(* Bounds of the model *)

\* Subdivide calls explored per mesh
MaxSubdiv == 2
\* triangles in a loaded mesh
MaxTris == 2
\* triangles in a mesh whose statistics are computed
MaxStatTris == 3
\* largest value of std::thread::hardware_concurrency()
MaxHC == 3
\* triangles and hardware concurrency when only the spawning loop is run
MaxPartTris == 7
MaxPartHC == 5

\* the query points of IsPointInside have coordinates up to MaxPointCoord / 2
MaxPointCoord == 4

\* entries of the "vertices" and of the "triangles" array of a mesh file
\* given to the constructor
MaxFileFloats == 12
MaxFileIndices == 3
\* mesh selections made in the mesh picker
MaxSelections == 1
\* the values of hardware_concurrency() and the presses of Subdivide on one
\* mesh when the main loop runs with its threads
MaxMainHC == 1
MaxMainSubdiv == 1

Unit == 2 ^ MaxSubdiv

-----------------------------------------------------------------------------
(* glm::vec3 *)

Zero3 == <<0, 0, 0>>
VAdd(a, b) == <<a[1] + b[1], a[2] + b[2], a[3] + b[3]>>
VSub(a, b) == <<a[1] - b[1], a[2] - b[2], a[3] - b[3]>>
\* 0.5f * v
VHalf(v) == <<v[1] \div 2, v[2] \div 2, v[3] \div 2>>
Cross(a, b) ==
    << a[2] * b[3] - a[3] * b[2],
       a[3] * b[1] - a[1] * b[3],
       a[1] * b[2] - a[2] * b[1] >>
Dot(a, b) == a[1] * b[1] + a[2] * b[2] + a[3] * b[3]

Vertex(position, normal) == [position |-> position, normal |-> normal]

-----------------------------------------------------------------------------
(* Triangle: a view of three vertices, held as their positions in the      *)
(* vertex sequence (the code holds Vertex* into the vector's storage)      *)

\* Triangle::GetTriangle(vertices, indices, i), i 0-based
GetTriangle(idx, i) == [vA |-> idx[i + 1], vB |-> idx[i + 2], vC |-> idx[i + 3]]

GetNormalSwapped(verts, t) ==
    LET e1 == VSub(verts[t.vA + 1].position, verts[t.vB + 1].position)
        e2 == VSub(verts[t.vC + 1].position, verts[t.vB + 1].position)
    IN  Cross(e2, e1)

\* Triangle::GetNormal
GetNormal(verts, t) ==
    LET e1 == VSub(verts[t.vA + 1].position, verts[t.vB + 1].position)
        e2 == VSub(verts[t.vC + 1].position, verts[t.vB + 1].position)
    IN  Cross(e1, e2)

\* v->normal += n
AddNormal(verts, v, n) ==
    [verts EXCEPT ![v + 1].normal = VAdd(@, n)]

\* v->normal = glm::vec3(0)
ResetNormal(verts, v) ==
    [verts EXCEPT ![v + 1].normal = Zero3]

TriangleCount(idx) == Len(idx) \div 3

\* one iteration of the loop of Mesh::CalculateNormals
NormalsStep(verts, idx, i) ==
    LET triangle == GetTriangle(idx, i)
        normal == GetNormal(verts, triangle)
    IN  AddNormal(AddNormal(AddNormal(verts, triangle.vA, normal),
                            triangle.vB, normal),
                  triangle.vC, normal)

\* the iterations i = 3*first, 3*(first+1), .., 3*(last-1) of that loop, in
\* this order.  The range is run in two halves, and the first half is
\* evaluated (by the comparison) before the second starts, which keeps the
\* evaluation shallow; the order of the iterations is the loop's.
RECURSIVE NormalsLoop(_, _, _, _)
NormalsLoop(verts, idx, first, last) ==
    IF last <= first THEN verts
    ELSE IF last = first + 1 THEN NormalsStep(verts, idx, 3 * first)
    ELSE LET mid == (first + last) \div 2
             half == NormalsLoop(verts, idx, first, mid)
         IN  IF half = verts
             THEN NormalsLoop(verts, idx, mid, last)
             ELSE NormalsLoop(half, idx, mid, last)

\* the number of iterations of for (i = 0; i < size; i += 3)
Iterations(size) == (size + 2) \div 3

CalculateNormalsCleared(verts, idx) ==
    NormalsLoop([v \in 1..Len(verts) |-> Vertex(verts[v].position, Zero3)],
                idx, 0, Iterations(Len(idx)))

\* Mesh::CalculateNormals
CalculateNormals(verts, idx) == NormalsLoop(verts, idx, 0, Iterations(Len(idx)))

-----------------------------------------------------------------------------
(* Mesh::Subdivide *)

Max(a, b) == IF a > b THEN a ELSE b
Min(a, b) == IF a < b THEN a ELSE b

HashCombineSum(v1, v2) == v1 + v2

HashCombineOrdered(v1, v2) == v1 * (v1 + 1) + v2

HashCombine(v1, v2) ==
    LET m == Max(v1, v2)
    IN  m * (m + 1) + Min(v1, v2)

\* midpoint = a + 0.5f * (b - a)
Midpoint(a, b) == VAdd(a, VHalf(VSub(b, a)))

\* the loop state of Subdivide: the vertex vector, newIndices and the
\* unordered_map availableNewVertexIdxs (edge hash -> vertex id)
SubState(verts, newIndices, avail) ==
    [vertices |-> verts, newIndices |-> newIndices, avail |-> avail]

\* if (!availableNewVertexIdxs.count(h)) { idx = vertices.size(); insert;
\* emplace_back } else idx = availableNewVertexIdxs.at(h)
\* yields the loop state and the midpoint's vertex id
LookupOrCreate(st, h, midpoint) ==
    IF h \notin DOMAIN st.avail
    THEN LET idx == Len(st.vertices)
         IN  [st |-> SubState(Append(st.vertices, Vertex(midpoint, Zero3)),
                              st.newIndices,
                              [k \in DOMAIN st.avail \cup {h} |->
                                  IF k = h THEN idx ELSE st.avail[k]]),
              idx |-> idx]
    ELSE [st |-> st, idx |-> st.avail[h]]

EmitChildrenFlipped(newIndices, a, b, c, mAB, mAC, mBC) ==
    newIndices \o <<a, mAC, mAB,  mAC, mAB, mBC,  mAC, mBC, c,  mAB, b, mBC>>

EmitChildrenThree(newIndices, a, b, c, mAB, mAC, mBC) ==
    newIndices \o <<a, mAB, mAC,  mAC, mBC, c,  mAB, b, mBC>>

\* the twelve push_back calls: four children, counter-clockwise
EmitChildren(newIndices, a, b, c, mAB, mAC, mBC) ==
    newIndices \o <<a, mAB, mAC,  mAC, mAB, mBC,  mAC, mBC, c,  mAB, b, mBC>>

\* that iteration without the three assignments vX->normal = glm::vec3(0)
SubdivideStepNoReset(st, idx, i) ==
    LET triangle == GetTriangle(idx, i)
        pA == st.vertices[triangle.vA + 1].position
        pB == st.vertices[triangle.vB + 1].position
        pC == st.vertices[triangle.vC + 1].position
        midpointAC == Midpoint(pA, pC)
        midpointAB == Midpoint(pA, pB)
        midpointBC == Midpoint(pB, pC)
        edgeHashAC == HashCombine(idx[i + 1], idx[i + 3])
        edgeHashAB == HashCombine(idx[i + 1], idx[i + 2])
        edgeHashBC == HashCombine(idx[i + 2], idx[i + 3])
        rAC == LookupOrCreate(st, edgeHashAC, midpointAC)
        rAB == LookupOrCreate(rAC.st, edgeHashAB, midpointAB)
        rBC == LookupOrCreate(rAB.st, edgeHashBC, midpointBC)
    IN  SubState(rBC.st.vertices,
                 EmitChildren(rBC.st.newIndices, idx[i + 1], idx[i + 2], idx[i + 3],
                              rAB.idx, rAC.idx, rBC.idx),
                 rBC.st.avail)

\* one iteration of the loop of Subdivide over the source triangle at i
SubdivideStep(st, idx, i) ==
    LET triangle == GetTriangle(idx, i)
        pA == st.vertices[triangle.vA + 1].position
        pB == st.vertices[triangle.vB + 1].position
        pC == st.vertices[triangle.vC + 1].position
        midpointAC == Midpoint(pA, pC)
        midpointAB == Midpoint(pA, pB)
        midpointBC == Midpoint(pB, pC)
        reset == ResetNormal(ResetNormal(ResetNormal(st.vertices, triangle.vA),
                                         triangle.vB), triangle.vC)
        st0 == SubState(reset, st.newIndices, st.avail)
        edgeHashAC == HashCombine(idx[i + 1], idx[i + 3])
        edgeHashAB == HashCombine(idx[i + 1], idx[i + 2])
        edgeHashBC == HashCombine(idx[i + 2], idx[i + 3])
        rAC == LookupOrCreate(st0, edgeHashAC, midpointAC)
        rAB == LookupOrCreate(rAC.st, edgeHashAB, midpointAB)
        rBC == LookupOrCreate(rAB.st, edgeHashBC, midpointBC)
    IN  SubState(rBC.st.vertices,
                 EmitChildren(rBC.st.newIndices, idx[i + 1], idx[i + 2], idx[i + 3],
                              rAB.idx, rAC.idx, rBC.idx),
                 rBC.st.avail)

\* that iteration with the normal resets moved behind the creation of the
\* midpoint vertices
StepAccessesResetLast(st, idx, i) ==
    LET edgeHashAC == HashCombine(idx[i + 1], idx[i + 3])
        edgeHashAB == HashCombine(idx[i + 1], idx[i + 2])
        edgeHashBC == HashCombine(idx[i + 2], idx[i + 3])
        rAC == LookupOrCreate(st, edgeHashAC, Zero3)
        rAB == LookupOrCreate(rAC.st, edgeHashAB, Zero3)
        Access(h, before) == IF h \notin DOMAIN before.avail
                             THEN "append" ELSE "at"
    IN  <<"view", "read", "read", "read",
          Access(edgeHashAC, st), Access(edgeHashAB, rAC.st),
          Access(edgeHashBC, rAB.st), "write", "write", "write">>

\* the accesses that one iteration of the loop makes to the storage of the
\* vertex vector, in the order of its statements: "view" is GetTriangle
\* taking the three addresses, "read" a statement that reads positions
\* through them (the three midpoints), "write" one that writes a normal
\* through them (the three resets), "append" an emplace_back for an edge
\* whose hash is not in the map, "at" the map lookup taken instead
StepAccesses(st, idx, i) ==
    LET edgeHashAC == HashCombine(idx[i + 1], idx[i + 3])
        edgeHashAB == HashCombine(idx[i + 1], idx[i + 2])
        edgeHashBC == HashCombine(idx[i + 2], idx[i + 3])
        rAC == LookupOrCreate(st, edgeHashAC, Zero3)
        rAB == LookupOrCreate(rAC.st, edgeHashAB, Zero3)
        Access(h, before) == IF h \notin DOMAIN before.avail
                             THEN "append" ELSE "at"
    IN  <<"view", "read", "read", "read", "write", "write", "write",
          Access(edgeHashAC, st), Access(edgeHashAB, rAC.st),
          Access(edgeHashBC, rAB.st)>>

\* the iterations i = 3*first, .., 3*(last-1) of that loop, in this order
\* (run in two halves as in NormalsLoop)
RECURSIVE SubdivideLoop(_, _, _, _)
SubdivideLoop(st, idx, first, last) ==
    IF last <= first THEN st
    ELSE IF last = first + 1 THEN SubdivideStep(st, idx, 3 * first)
    ELSE LET mid == (first + last) \div 2
             half == SubdivideLoop(st, idx, first, mid)
         IN  IF half = st
             THEN SubdivideLoop(st, idx, mid, last)
             ELSE SubdivideLoop(half, idx, mid, last)

SubdivideMeshKeepIndices(verts, idx) ==
    LET st == SubdivideLoop(SubState(verts, <<>>, <<>>), idx, 0,
                            Iterations(Len(idx)))
    IN  [vertices |-> CalculateNormals(st.vertices, idx), indices |-> idx]

SubdivideMeshDropVertices(verts, idx) ==
    LET st == SubdivideLoop(SubState(verts, <<>>, <<>>), idx, 0,
                            Iterations(Len(idx)))
    IN  [vertices |-> verts, indices |-> st.newIndices]

SubdivideMeshNoNormals(verts, idx) ==
    LET st == SubdivideLoop(SubState(verts, <<>>, <<>>), idx, 0,
                            Iterations(Len(idx)))
    IN  [vertices |-> st.vertices, indices |-> st.newIndices]

\* Mesh::Subdivide: the mesh it leaves, as [vertices, indices]
SubdivideMesh(verts, idx) ==
    LET st == SubdivideLoop(SubState(verts, <<>>, <<>>), idx, 0,
                            Iterations(Len(idx)))
    IN  [vertices |-> CalculateNormals(st.vertices, st.newIndices),
         indices |-> st.newIndices]

-----------------------------------------------------------------------------
(* Exact rationals <<n, d>>, d > 0, in lowest terms, for the float values  *)
(* of the statistics                                                       *)

Abs(x) == IF x < 0 THEN -x ELSE x

RECURSIVE GCD(_, _)
GCD(a, b) == IF b = 0 THEN a ELSE GCD(b, a % b)

Rat(n, d) ==
    LET g == GCD(Abs(n), d)
    IN  <<n \div g, d \div g>>

RAdd(x, y) == Rat(x[1] * y[2] + y[1] * x[2], x[2] * y[2])
\* x / k for an integer k > 0
RDivInt(x, k) == Rat(x[1], x[2] * k)
RLess(x, y) == x[1] * y[2] < y[1] * x[2]
RZero == <<0, 1>>

\* glm::length(v), for the vectors of the model, whose length is an integer
\* (the triangles of FilePositions that the meshes use are axis-aligned)
Length(v) ==
    CHOOSE r \in UNION { { q \in 0..(Abs(w[1]) + Abs(w[2]) + Abs(w[3])) :
                              q * q = Dot(w, w) } : w \in {v} } : TRUE

-----------------------------------------------------------------------------
(* Mesh::CalculateStatistics *)

\* stands for FLT_MAX: above every area of the model
FLT_MAX == 100000000

\* TriangleStatistics::TriangleStatistics
TriangleStatistics ==
    [minArea |-> <<FLT_MAX, 1>>, maxArea |-> RZero, avgArea |-> RZero]

\* threadCount = hardware_concurrency() > triangleCount ? triangleCount
\*                                                      : hardware_concurrency()
ThreadCount(hc, tc) == IF hc > tc THEN tc ELSE hc

BatchSizeFrontLoaded(i, tc, n) == IF i = 0 THEN tc - (n - 1) ELSE 1

BatchSizeFloor(i, tc, n) == tc \div n

\* batchSize = (i * triangleCount + triangleCount) / threadCount
\*             - (i * triangleCount) / threadCount
\* (int products, divided as unsigned; all are nonnegative and, for the
\* triangle counts of the model, below 2^31, so no value wraps)
BatchSize(i, tc, n) == (i * tc + tc) \div n - (i * tc) \div n

\* area = glm::length(triangle.GetNormal()) * 0.5
Area(verts, triangle) == Rat(Length(GetNormal(verts, triangle)), 2)

AccumulateBatchAvg(stats, area, tc) ==
    [minArea |-> IF RLess(area, stats.minArea) /\ area # RZero
                 THEN area ELSE stats.minArea,
     maxArea |-> IF RLess(stats.maxArea, area) THEN area ELSE stats.maxArea,
     avgArea |-> RAdd(stats.avgArea, area)]

\* the body of the worker's loop: the update of its local stats by one area
Accumulate(stats, area, tc) ==
    [minArea |-> IF RLess(area, stats.minArea) /\ area # RZero
                 THEN area ELSE stats.minArea,
     maxArea |-> IF RLess(stats.maxArea, area) THEN area ELSE stats.maxArea,
     avgArea |-> RAdd(stats.avgArea, RDivInt(area, tc))]

ReduceLastMax(result, currentStats) ==
    [avgArea |-> RAdd(result.avgArea, currentStats.avgArea),
     minArea |-> IF RLess(currentStats.minArea, result.minArea)
                 THEN currentStats.minArea ELSE result.minArea,
     maxArea |-> currentStats.maxArea]

\* the binary operation of std::accumulate in the aggregator
Reduce(result, currentStats) ==
    [avgArea |-> RAdd(result.avgArea, currentStats.avgArea),
     minArea |-> IF RLess(currentStats.minArea, result.minArea)
                 THEN currentStats.minArea ELSE result.minArea,
     maxArea |-> IF RLess(result.maxArea, currentStats.maxArea)
                 THEN currentStats.maxArea ELSE result.maxArea]

\* the task std::async starts on the triangles [start, end) of the index
\* sequence: its loop variable i, its local stats, and whether it has returned
NewWorker(from, to) ==
    [start |-> from, end |-> to, i |-> from, stats |-> TriangleStatistics,
     ready |-> FALSE]

\* no aggregator thread exists
NoAggregator ==
    [pc |-> "none", next |-> 1, result |-> TriangleStatistics,
     stored |-> FALSE, signalled |-> FALSE]

\* workers a call can start within the bounds
MaxWorkers == Max(Min(MaxHC, MaxStatTris), Min(MaxPartHC, MaxPartTris))

-----------------------------------------------------------------------------
(* Mesh::IsPointInside.  The float values are exact rationals: positions   *)
(* and the query point are held as multiples of 1 / Unit, the ray          *)
(* direction is in file units, and each dot product is brought back to     *)
(* file units before it is compared with epsilon.                          *)

RNeg(x) == <<-x[1], x[2]>>
\* x / y for y # 0
RDiv(x, y) ==
    IF y[1] > 0 THEN Rat(x[1] * y[2], x[2] * y[1])
    ELSE Rat(-(x[1] * y[2]), x[2] * (-y[1]))
ROne == <<1, 1>>

\* std::numeric_limits<float>::epsilon(): 2^-23
Epsilon == <<1, 2 ^ 23>>

\* const glm::vec3 rayDirection = glm::vec3(1.0f, 1.0f, 0.0f)
RayDirection == <<1, 1, 0>>

DoesRayIntersectTriangleLine(ray_origin, ray_vector, verts, triangle) ==
    LET pA == verts[triangle.vA + 1].position
        edge1 == VSub(verts[triangle.vB + 1].position, pA)
        edge2 == VSub(verts[triangle.vC + 1].position, pA)
        ray_cross_e2 == Cross(ray_vector, edge2)
        det == Rat(Dot(edge1, ray_cross_e2), Unit * Unit)
        s == VSub(ray_origin, pA)
        s_cross_e1 == Cross(s, edge1)
        u == RDiv(Rat(Dot(s, ray_cross_e2), Unit * Unit), det)
        v == RDiv(Rat(Dot(ray_vector, s_cross_e1), Unit * Unit), det)
    IN  IF RLess(RNeg(Epsilon), det) /\ RLess(det, Epsilon) THEN FALSE
        ELSE IF RLess(u, RZero) \/ RLess(ROne, u) THEN FALSE
        ELSE IF RLess(v, RZero) \/ RLess(ROne, RAdd(u, v)) THEN FALSE
        ELSE TRUE

\* DoesRayIntersectTriangle (Moeller-Trumbore); ray_origin in units of
\* 1 / Unit, ray_vector in file units
DoesRayIntersectTriangle(ray_origin, ray_vector, verts, triangle) ==
    LET pA == verts[triangle.vA + 1].position
        edge1 == VSub(verts[triangle.vB + 1].position, pA)
        edge2 == VSub(verts[triangle.vC + 1].position, pA)
        ray_cross_e2 == Cross(ray_vector, edge2)
        det == Rat(Dot(edge1, ray_cross_e2), Unit * Unit)
        s == VSub(ray_origin, pA)
        s_cross_e1 == Cross(s, edge1)
        u == RDiv(Rat(Dot(s, ray_cross_e2), Unit * Unit), det)
        v == RDiv(Rat(Dot(ray_vector, s_cross_e1), Unit * Unit), det)
        t == RDiv(Rat(Dot(edge2, s_cross_e1), Unit * Unit * Unit), det)
    IN  IF RLess(RNeg(Epsilon), det) /\ RLess(det, Epsilon) THEN FALSE
        ELSE IF RLess(u, RZero) \/ RLess(ROne, u) THEN FALSE
        ELSE IF RLess(v, RZero) \/ RLess(ROne, RAdd(u, v)) THEN FALSE
        ELSE RLess(Epsilon, t)

\* intersectionCount at the end of the loop of IsPointInside
IntersectionCount(p, verts, idx) ==
    Cardinality({ k \in 0..(Iterations(Len(idx)) - 1) :
                    DoesRayIntersectTriangle(p, RayDirection, verts,
                                             GetTriangle(idx, 3 * k)) })

IsPointInsideEven(p, verts, idx) ==
    IntersectionCount(p, verts, idx) % 2 = 0

\* Mesh::IsPointInside
IsPointInside(p, verts, idx) ==
    IntersectionCount(p, verts, idx) % 2 = 1

-----------------------------------------------------------------------------
(* Mesh::Mesh: the meshes a mesh file can describe, within the bounds *)

\* positions of the file's "vertices" array, in file units
FilePositions ==
    << <<0, 0, 0>>, <<1, 0, 0>>, <<0, 1, 0>>, <<1, 1, 0>>, <<0, 0, 2>> >>

\* index triples of the file's "triangles" array
TriangleChoices ==
    { <<0, 1, 2>>, <<2, 1, 3>>, <<0, 2, 1>>, <<1, 2, 0>>, <<0, 0, 1>>,
      <<0, 1, 4>>, <<1, 3, 2>> }

Scale(p) == <<p[1] * Unit, p[2] * Unit, p[3] * Unit>>
Unscale(p) == <<p[1] \div Unit, p[2] \div Unit, p[3] \div Unit>>

RECURSIVE Flatten(_)
Flatten(tris) ==
    IF tris = <<>> THEN <<>> ELSE Head(tris) \o Flatten(Tail(tris))

TriangleLists(choices, n) ==
    UNION { [1..k -> choices] : k \in 0..n }

\* the constructor: vertices with zero normals, the indices, CalculateNormals
LoadMesh(nv, tris) ==
    LET verts == [k \in 1..nv |-> Vertex(Scale(FilePositions[k]), Zero3)]
        idx == Flatten(tris)
    IN  [vertices |-> CalculateNormals(verts, idx), indices |-> idx]

\* a mesh file with nv >= 3 vertices and at most MaxTris triangles, every
\* index in [0, nv)
MeshesOf(nv) ==
    { LoadMesh(nv, tris) :
        tris \in TriangleLists({t \in TriangleChoices :
                                   \A k \in 1..3 : t[k] < nv}, MaxTris) }

LoadableMeshes == UNION { MeshesOf(nv) : nv \in 3..Len(FilePositions) }

\* a mesh file: the "vertices" array (numbers, in file units) and the
\* "triangles" array (integers) of its geometry_object
MeshFile(fileVertices, fileTriangles) ==
    [vertices |-> fileVertices, triangles |-> fileTriangles]

\* the vertex that one iteration of the constructor's first loop emplaces,
\* from verticesArray[i], [i + 1], [i + 2]
FileVertex(file, i) ==
    Vertex(Scale(<<file.vertices[i + 1], file.vertices[i + 2],
                   file.vertices[i + 3]>>), Zero3)

\* Mesh::Mesh on a file whose "vertices" array has at least 3 entries: the
\* first loop runs for i = 0, 3, .. while i <= Size() - 3, the second copies
\* the indices, then CalculateNormals
ConstructMesh(file) ==
    LET verts == [k \in 1..(Len(file.vertices) \div 3) |->
                     FileVertex(file, 3 * (k - 1))]
    IN  [vertices |-> CalculateNormals(verts, file.triangles),
         indices |-> file.triangles]

-----------------------------------------------------------------------------
(* The unit cube: corner x + 2y + 4z is at (x, y, z).  Each face is given  *)
(* by its corners counter-clockwise as seen from outside and is cut into   *)
(* two triangles along either diagonal.                                    *)

CubeCorners ==
    << <<0, 0, 0>>, <<1, 0, 0>>, <<0, 1, 0>>, <<1, 1, 0>>,
       <<0, 0, 1>>, <<1, 0, 1>>, <<0, 1, 1>>, <<1, 1, 1>> >>

CubeFaces ==
    << <<0, 2, 3, 1>>, <<4, 5, 7, 6>>, <<0, 1, 5, 4>>,
       <<2, 6, 7, 3>>, <<0, 4, 6, 2>>, <<1, 3, 7, 5>> >>

\* the two triangles of face f cut along diagonal d, wound as the face
\* ("ccw") or the other way round ("cw")
FaceTriangles(f, d, winding) ==
    LET t1 == IF d = 0 THEN <<f[1], f[2], f[3]>> ELSE <<f[1], f[2], f[4]>>
        t2 == IF d = 0 THEN <<f[1], f[3], f[4]>> ELSE <<f[2], f[3], f[4]>>
        Wind(t) == IF winding = "ccw" THEN t ELSE <<t[1], t[3], t[2]>>
    IN  Wind(t1) \o Wind(t2)

\* the mesh file of the cube with diagonal diag[k] on face k
CubeFile(diag, winding) ==
    MeshFile(Flatten(CubeCorners),
             Flatten([k \in 1..Len(CubeFaces) |->
                         FaceTriangles(CubeFaces[k], diag[k], winding)]))

CubeFiles ==
    { CubeFile(diag, winding) :
        diag \in [1..Len(CubeFaces) -> {0, 1}], winding \in {"ccw", "cw"} }

-----------------------------------------------------------------------------
(* Specification of Subdivide: a loaded mesh, subdivided repeatedly *)

\* main before any button is pressed: TriangleStatistics meshStatistics;
\* bool didCalculateStats = false; no statistics call made
NoStatistics ==
    /\ callPc = "idle"
    /\ triangleCount = 0
    /\ threadCount = 0
    /\ start = 0
    /\ loopI = 0
    /\ futures = <<>>
    /\ aggregator = NoAggregator
    /\ meshStatistics = TriangleStatistics
    /\ didCalculateStats = FALSE

\* the mesh file that the constructor makes mesh m from
FileOfMesh(m) ==
    [vertices |-> Flatten([k \in 1..Len(m.vertices) |->
                              Unscale(m.vertices[k].position)]),
     triangles |-> m.indices]

\* main some frames after the loader thread has made mesh m, before any button
\* is pressed
Loaded(m) ==
    /\ vertices = m.vertices
    /\ indices = m.indices
    /\ meshIsNull = FALSE
    /\ meshFile = FileOfMesh(m)
    /\ loaders = <<>>
    /\ didLoadMesh = TRUE
    /\ isLoadingMesh = FALSE
    /\ selections = 0
    /\ programPc = "running"
    /\ errorMessage = ""
    /\ outOfBounds = {}
    /\ isCalculatingStats = FALSE
    /\ callVertices = <<>>
    /\ callIndices = <<>>
    /\ lateStores = {}
    /\ rayOrigin = Zero3
    /\ isPointInside = FALSE
    /\ didCalculatePoint = FALSE

InitSubdivide ==
    /\ \E m \in LoadableMeshes : Loaded(m)
    /\ point = Zero3
    /\ preVertices = <<>>
    /\ preIndices = <<>>
    /\ subdivisions = 0
    /\ hardwareConcurrency = 1
    /\ NoStatistics

\* the Subdivide button: mesh->Subdivide()
Subdivide ==
    /\ programPc = "running"
    /\ subdivisions < MaxSubdiv
    /\ LET m == SubdivideMesh(vertices, indices)
       IN  /\ vertices' = m.vertices
           /\ indices' = m.indices
    /\ preVertices' = vertices
    /\ preIndices' = indices
    /\ subdivisions' = subdivisions + 1
    /\ UNCHANGED <<statVars, otherVars>>

vars == <<vertices, indices, preVertices, preIndices, subdivisions,
          hardwareConcurrency, callPc, triangleCount, threadCount, start,
          loopI, futures, aggregator, meshStatistics, didCalculateStats,
          isCalculatingStats, meshIsNull, meshFile, loaders, didLoadMesh,
          isLoadingMesh, selections, programPc, errorMessage, outOfBounds,
          callVertices, callIndices, lateStores, point, rayOrigin,
          isPointInside, didCalculatePoint>>

NextSubdivide == Subdivide

SpecSubdivide == InitSubdivide /\ [][NextSubdivide]_vars

-----------------------------------------------------------------------------
(* Specification of one CalculateStatistics call on a loaded mesh *)

\* index triples of the meshes whose statistics are computed: area 1/2, area
\* 0 (a repeated vertex) and area 1
StatTriangleChoices == { <<0, 1, 2>>, <<0, 0, 1>>, <<0, 1, 4>> }

StatMeshes ==
    { LoadMesh(Len(FilePositions), tris) :
        tris \in TriangleLists(StatTriangleChoices, MaxStatTris) }

InitStatistics ==
    /\ \E m \in StatMeshes : Loaded(m)
    /\ point = Zero3
    /\ preVertices = <<>>
    /\ preIndices = <<>>
    /\ subdivisions = 0
    /\ hardwareConcurrency \in 0..MaxHC
    /\ NoStatistics

MayCalculateNotDone == ~didCalculateStats

\* the guard of the Calculate Statistics button:
\* !didCalculateStats && !isCalculatingStats
MayCalculate == ~didCalculateStats /\ ~isCalculatingStats

\* the write of stats that an aggregator thread has yet to make although its
\* write of didCalculate has taken effect (the two are unordered, see
\* AggregatorStore); the thread is detached and outlives the call that made it
PendingStore(a) ==
    IF a.pc = "write" /\ ~a.stored THEN {a.result} ELSE {}

\* the Calculate Statistics button: isCalculatingStats = true and the entry
\* of CalculateStatistics up to the spawning loop; triangleStatsFutures is a
\* new vector, and the storage that indices and vertices name is the mesh's
CallBegin ==
    /\ programPc = "running"
    /\ callPc \in {"idle", "returned"}
    /\ MayCalculate
    /\ isCalculatingStats' = TRUE
    /\ triangleCount' = TriangleCount(indices)
    /\ threadCount' = ThreadCount(hardwareConcurrency, TriangleCount(indices))
    /\ start' = 0
    /\ loopI' = 0
    /\ futures' = <<>>
    /\ aggregator' = NoAggregator
    /\ lateStores' = lateStores \cup PendingStore(aggregator)
    /\ callVertices' = vertices
    /\ callIndices' = indices
    /\ callPc' = "spawn"
    /\ UNCHANGED <<meshVars, subVars, hardwareConcurrency, meshStatistics,
                   didCalculateStats, loadVars, pointVars>>

\* one iteration of the spawning loop: std::async(std::launch::async, ...)
SpawnWorker ==
    /\ programPc = "running"
    /\ callPc = "spawn"
    /\ loopI < threadCount
    /\ LET batchSize == BatchSize(loopI, triangleCount, threadCount)
       IN  /\ futures' = Append(futures,
                                NewWorker(start * 3, (start + batchSize) * 3))
           /\ start' = start + batchSize
    /\ loopI' = loopI + 1
    /\ UNCHANGED <<meshVars, subVars, otherVars, hardwareConcurrency,
                   callPc,
                   triangleCount, threadCount, aggregator, meshStatistics,
                   didCalculateStats>>

\* after the loop: std::thread(..., std::move(triangleStatsFutures), ...)
StartAggregator ==
    /\ programPc = "running"
    /\ callPc = "spawn"
    /\ loopI >= threadCount
    /\ aggregator' = [pc |-> "accumulate", next |-> 1,
                      result |-> TriangleStatistics,
                      stored |-> FALSE, signalled |-> FALSE]
    /\ callPc' = "detach"
    /\ UNCHANGED <<meshVars, subVars, otherVars, hardwareConcurrency,
                   triangleCount,
                   threadCount, start, loopI, futures, meshStatistics,
                   didCalculateStats>>

ReturnJoined ==
    /\ programPc = "running"
    /\ callPc = "detach"
    /\ aggregator.pc = "done"
    /\ callPc' = "returned"
    /\ UNCHANGED <<meshVars, subVars, otherVars, hardwareConcurrency,
                   triangleCount,
                   threadCount, start, loopI, futures, aggregator,
                   meshStatistics, didCalculateStats>>

\* .detach() and the return of CalculateStatistics
Return ==
    /\ programPc = "running"
    /\ callPc = "detach"
    /\ callPc' = "returned"
    /\ UNCHANGED <<meshVars, subVars, otherVars, hardwareConcurrency,
                   triangleCount,
                   threadCount, start, loopI, futures, aggregator,
                   meshStatistics, didCalculateStats>>

\* the vectors that the workers' references name no longer hold what the
\* call found (callVertices, callIndices): the mesh was subdivided after the
\* call began, or replaced, which leaves nothing of what the call found
MeshTouched == vertices # callVertices \/ indices # callIndices

\* worker w: one iteration of its loop over its batch
WorkerStep(w) ==
    /\ programPc = "running"
    /\ w \in 1..Len(futures)
    /\ ~MeshTouched
    /\ ~futures[w].ready
    /\ futures[w].i < futures[w].end
    /\ \E area \in {Area(vertices, GetTriangle(indices, futures[w].i))} :
          futures' = [futures EXCEPT
                         ![w].stats = Accumulate(@, area, triangleCount),
                         ![w].i = @ + 3]
    /\ UNCHANGED <<meshVars, subVars, otherVars, hardwareConcurrency,
                   callVars,
                   aggregator, meshStatistics, didCalculateStats>>

\* worker w: return stats, which makes its future ready
WorkerReturn(w) ==
    /\ programPc = "running"
    /\ w \in 1..Len(futures)
    /\ ~futures[w].ready
    /\ futures[w].i >= futures[w].end
    /\ futures' = [futures EXCEPT ![w].ready = TRUE]
    /\ UNCHANGED <<meshVars, subVars, otherVars, hardwareConcurrency,
                   callVars,
                   aggregator, meshStatistics, didCalculateStats>>

\* the aggregator: one step of std::accumulate, current.get() waits for the
\* worker
AggregatorGet ==
    /\ programPc = "running"
    /\ aggregator.pc = "accumulate"
    /\ aggregator.next <= Len(futures)
    /\ futures[aggregator.next].ready
    /\ aggregator' = [aggregator EXCEPT
                         !.result = Reduce(@, futures[aggregator.next].stats),
                         !.next = @ + 1]
    /\ UNCHANGED <<meshVars, subVars, otherVars, hardwareConcurrency,
                   callVars, futures,
                   meshStatistics, didCalculateStats>>

AggregatorReducedNonEmpty ==
    /\ programPc = "running"
    /\ aggregator.pc = "accumulate"
    /\ aggregator.next > Len(futures)
    /\ Len(futures) > 0
    /\ aggregator' = [aggregator EXCEPT !.pc = "write"]
    /\ UNCHANGED <<meshVars, subVars, otherVars, hardwareConcurrency,
                   callVars, futures,
                   meshStatistics, didCalculateStats>>

\* the aggregator: std::accumulate returns; the writes stats = ... and
\* didCalculate = true are issued
AggregatorReduced ==
    /\ programPc = "running"
    /\ aggregator.pc = "accumulate"
    /\ aggregator.next > Len(futures)
    /\ aggregator' = [aggregator EXCEPT !.pc = "write"]
    /\ UNCHANGED <<meshVars, subVars, otherVars, hardwareConcurrency,
                   callVars, futures,
                   meshStatistics, didCalculateStats>>

AggregatorDone(a) ==
    IF a.stored /\ a.signalled THEN [a EXCEPT !.pc = "done"] ELSE a

\* the aggregator: stats = <the accumulated result>.  stats and didCalculate
\* are plain variables of main that the main thread reads with no
\* synchronisation (a data race), so this write and the write of AggregatorSignal
\* take effect in either order.
AggregatorStore ==
    /\ programPc = "running"
    /\ aggregator.pc = "write"
    /\ ~aggregator.stored
    /\ meshStatistics' = aggregator.result
    /\ aggregator' = AggregatorDone([aggregator EXCEPT !.stored = TRUE])
    /\ UNCHANGED <<meshVars, subVars, otherVars, hardwareConcurrency,
                   callVars, futures,
                   didCalculateStats>>

\* the aggregator: didCalculate = true
AggregatorSignal ==
    /\ programPc = "running"
    /\ aggregator.pc = "write"
    /\ ~aggregator.signalled
    /\ didCalculateStats' = TRUE
    /\ aggregator' = AggregatorDone([aggregator EXCEPT !.signalled = TRUE])
    /\ UNCHANGED <<meshVars, subVars, otherVars, hardwareConcurrency,
                   callVars, futures,
                   meshStatistics>>

NextStatistics ==
    \/ CallBegin
    \/ SpawnWorker
    \/ StartAggregator
    \/ Return
    \/ \E w \in 1..MaxWorkers : WorkerStep(w)
    \/ \E w \in 1..MaxWorkers : WorkerReturn(w)
    \/ AggregatorGet
    \/ AggregatorReduced
    \/ AggregatorStore
    \/ AggregatorSignal

SpecStatistics == InitStatistics /\ [][NextStatistics]_vars

\* a step of the call after its entry, of a worker or of the aggregator
CallProgress ==
    \/ SpawnWorker
    \/ StartAggregator
    \/ Return
    \/ \E w \in 1..MaxWorkers : WorkerStep(w)
    \/ \E w \in 1..MaxWorkers : WorkerReturn(w)
    \/ AggregatorGet
    \/ AggregatorReduced
    \/ AggregatorStore
    \/ AggregatorSignal

\* the same under fair scheduling.  The weakest assumption is made that any
\* fair scheduler of the threads meets: as long as the main thread inside the
\* call, a worker or the aggregator can take a step, one of them does
FairStatistics == WF_vars(CallProgress)

SpecStatisticsFair == SpecStatistics /\ FairStatistics

-----------------------------------------------------------------------------
(* Specification of the spawning loop alone, for larger triangle counts:   *)
(* the caller runs CalculateStatistics to its return before a worker or    *)
(* the aggregator is scheduled                                             *)

RepeatTriangle(n) == [k \in 1..n |-> <<0, 1, 2>>]

InitPartition ==
    /\ \E n \in 0..MaxPartTris : Loaded(LoadMesh(3, RepeatTriangle(n)))
    /\ point = Zero3
    /\ preVertices = <<>>
    /\ preIndices = <<>>
    /\ subdivisions = 0
    /\ hardwareConcurrency \in 0..MaxPartHC
    /\ NoStatistics

NextPartition ==
    \/ CallBegin
    \/ SpawnWorker
    \/ StartAggregator
    \/ Return

SpecPartition == InitPartition /\ [][NextPartition]_vars

-----------------------------------------------------------------------------
(* Specification of the point test on a loaded unit cube *)

\* the point (x / 4, y / 4, z / 4) of the file, in units of 1 / Unit
QuarterPoint(x, y, z) ==
    <<x * (Unit \div 4), y * (Unit \div 4), z * (Unit \div 4)>>

\* the values the user gives to point[3]: the points (k/2, k/2, k/2) of the
\* cube's diagonal and the points (1/2, j/4, 1/2) of the line through its
\* centre along y
QueryPoints ==
    { QuarterPoint(2 * k, 2 * k, 2 * k) : k \in 0..MaxPointCoord }
    \cup { QuarterPoint(2, j, 2) : j \in 0..(2 * MaxPointCoord) }

\* the cube files, and a file with one vertex and no triangle
ContainmentFiles == CubeFiles \cup {MeshFile(<<0, 0, 0>>, <<>>)}

InitContainment ==
    /\ \E f \in ContainmentFiles : Loaded(ConstructMesh(f))
    /\ point \in QueryPoints
    /\ preVertices = <<>>
    /\ preIndices = <<>>
    /\ subdivisions = 0
    /\ hardwareConcurrency = 1
    /\ NoStatistics

\* ImGui::InputFloat3("", point): the user gives point a new value
InputPoint ==
    /\ programPc = "running"
    /\ point' \in QueryPoints
    /\ UNCHANGED <<meshVars, subVars, statVars, isCalculatingStats, loadVars,
                   raceVars, rayOrigin, isPointInside, didCalculatePoint>>

\* the Test Point Local button
TestPoint ==
    /\ programPc = "running"
    /\ ~meshIsNull
    /\ rayOrigin' = point
    /\ isPointInside' = IsPointInside(point, vertices, indices)
    /\ didCalculatePoint' = TRUE
    /\ UNCHANGED <<meshVars, subVars, statVars, isCalculatingStats, loadVars,
                   raceVars, point>>

NextContainment ==
    \/ InputPoint
    \/ TestPoint

SpecContainment == InitContainment /\ [][NextContainment]_vars

-----------------------------------------------------------------------------
(* Specification of the loader thread: main has started                    *)
(* std::thread(loadMesh, std::ref(mesh), path) on a mesh file whose arrays *)
(* hold numbers, and the thread runs loadMesh                              *)

\* the number of vertices the constructor makes from the file
FileVertexCount(file) == Len(file.vertices) \div 3

\* every index of the file is in [0, vertex_count) and the index count is a
\* multiple of 3
TopologyValidFile(file) ==
    /\ Len(file.triangles) % 3 = 0
    /\ \A j \in 1..Len(file.triangles) :
          file.triangles[j] \in 0..(FileVertexCount(file) - 1)

\* rapidjson::SizeType is unsigned, 32 bits wide: a value is held as its two
\* 16-bit halves <<high, low>>
SizeType(n) == <<(n \div (2 ^ 16)) % (2 ^ 16), n % (2 ^ 16)>>

\* a - b in SizeType: the difference modulo 2^32
SizeTypeMinus(a, b) ==
    LET low == a[2] - b[2]
        borrow == IF low < 0 THEN 1 ELSE 0
    IN  <<(a[1] - b[1] - borrow) % (2 ^ 16), low % (2 ^ 16)>>

\* a <= b in SizeType
SizeTypeLeq(a, b) == a[1] < b[1] \/ (a[1] = b[1] /\ a[2] <= b[2])

\* verticesArray.Size() - 3
VertexLoopLast(file) == SizeTypeMinus(SizeType(Len(file.vertices)), SizeType(3))

\* the constructor's first loop, for (i = 0; i <= Size() - 3; i += 3), reads
\* verticesArray[i + 2] within the array in the iterations it makes with i
\* up to Size()
VertexLoopInBounds(file) ==
    \A i \in { 3 * k : k \in 0..FileVertexCount(file) } :
        SizeTypeLeq(SizeType(i), VertexLoopLast(file))
            => i + 2 < Len(file.vertices)

\* the iterations that the constructor's first loop makes up to and with the
\* first one that reads outside the array: i = 0, 3, .. is taken while
\* i <= Size() - 3 holds in SizeType
VertexLoopIterations(file) ==
    LET Passes(k) == SizeTypeLeq(SizeType(3 * k), VertexLoopLast(file))
        F[k \in 0..(FileVertexCount(file) + 1)] ==
            IF k = 0 THEN 0
            ELSE IF F[k - 1] = k - 1 /\ Passes(k - 1) THEN k ELSE F[k - 1]
    IN  F[FileVertexCount(file) + 1]

\* the mesh files given to the constructor: any leading part of the five
\* positions, and any index array over -1 .. 4
LoaderFiles ==
    { MeshFile(SubSeq(Flatten(FilePositions), 1, n), idx) :
        n \in 0..MaxFileFloats,
        idx \in UNION { [1..k -> -1..(Len(FilePositions) - 1)] :
                           k \in 0..MaxFileIndices } }

\* a loader thread on the file, about to construct the Mesh
NewLoader(file) == [file |-> file, pc |-> "construct"]

\* main right after it has started the first loader thread
Loading(file) ==
    /\ vertices = <<>>
    /\ indices = <<>>
    /\ meshIsNull = TRUE
    /\ meshFile = MeshFile(<<>>, <<>>)
    /\ loaders = <<NewLoader(file)>>
    /\ didLoadMesh = FALSE
    /\ isLoadingMesh = FALSE
    /\ selections = 0
    /\ programPc = "running"
    /\ errorMessage = ""
    /\ outOfBounds = {}
    /\ isCalculatingStats = FALSE
    /\ callVertices = <<>>
    /\ callIndices = <<>>
    /\ lateStores = {}
    /\ point = Zero3
    /\ rayOrigin = Zero3
    /\ isPointInside = FALSE
    /\ didCalculatePoint = FALSE
    /\ preVertices = <<>>
    /\ preIndices = <<>>
    /\ subdivisions = 0
    /\ NoStatistics

InitLoader ==
    /\ \E file \in LoaderFiles : Loading(file)
    /\ hardwareConcurrency = 1

\* loader thread k: new Mesh(path) on a file that the constructor reads within
\* bounds, and m = std::make_unique<Mesh>(std::move(*loadedMesh)), which
\* deletes the Mesh that m held: the vectors that the references of a
\* statistics call name are gone
LoaderConstruct(k) ==
    /\ programPc = "running"
    /\ k \in 1..Len(loaders)
    /\ loaders[k].pc = "construct"
    /\ VertexLoopInBounds(loaders[k].file)
    /\ TopologyValidFile(loaders[k].file)
    /\ LET m == ConstructMesh(loaders[k].file)
       IN  /\ vertices' = m.vertices
           /\ indices' = m.indices
    /\ meshIsNull' = FALSE
    /\ meshFile' = loaders[k].file
    /\ preVertices' = <<>>
    /\ preIndices' = <<>>
    /\ subdivisions' = 0
    /\ loaders' = [loaders EXCEPT ![k].pc = "signal"]
    /\ callVertices' = <<>>
    /\ callIndices' = <<>>
    /\ UNCHANGED <<statVars, isCalculatingStats, didLoadMesh, isLoadingMesh,
                   selections, programPc, errorMessage, outOfBounds,
                   lateStores, pointVars>>

\* loader thread k: PopulateBuffers and didLoadMesh = true
LoaderSignal(k) ==
    /\ programPc = "running"
    /\ k \in 1..Len(loaders)
    /\ loaders[k].pc = "signal"
    /\ didLoadMesh' = TRUE
    /\ loaders' = [loaders EXCEPT ![k].pc = "done"]
    /\ UNCHANGED <<meshVars, subVars, statVars, isCalculatingStats, meshIsNull,
                   meshFile, isLoadingMesh, selections, programPc,
                   errorMessage, outOfBounds, raceVars, pointVars>>

\* loader thread k: the constructor's first loop on a "vertices" array of
\* fewer than 3 entries.  Size() - 3 wraps, the loop is entered and
\* verticesArray[i] is read outside the array: rapidjson's assertion aborts
\* the process, or (assertions off) the read is undefined: the process dies of
\* it, or finds no number there and takes exit(1)
LoaderShortArray(k) ==
    /\ programPc = "running"
    /\ k \in 1..Len(loaders)
    /\ loaders[k].pc = "construct"
    /\ ~VertexLoopInBounds(loaders[k].file)
    /\ outOfBounds' = outOfBounds \cup {"verticesArray"}
    /\ \/ programPc' = "crashed" /\ UNCHANGED errorMessage
       \/ programPc' = "exited" /\ errorMessage' = "Invalid vertex format"
    /\ loaders' = [loaders EXCEPT ![k].pc = "failed"]
    /\ UNCHANGED <<meshVars, subVars, statVars, isCalculatingStats, meshIsNull,
                   meshFile, didLoadMesh, isLoadingMesh, selections, raceVars,
                   pointVars>>

\* the sequences that CalculateNormals reads outside their storage on the
\* indices of the file: GetTriangle takes indices[i], [i + 1], [i + 2] and
\* &vertices[..] of each with no check
ReadOutside(file) ==
    (IF Len(file.triangles) % 3 # 0 THEN {"indices"} ELSE {})
    \cup (IF \E j \in 1..Len(file.triangles) :
                file.triangles[j] \notin 0..(FileVertexCount(file) - 1)
          THEN {"vertices"} ELSE {})

\* the triangles of the file that are complete and name vertices of the mesh
SoundTriangles(file) ==
    LET Sound(k) == \A c \in 1..3 :
            file.triangles[3 * k + c] \in 0..(FileVertexCount(file) - 1)
        F[k \in 0..(Len(file.triangles) \div 3)] ==
            IF k = 0 THEN <<>>
            ELSE IF Sound(k - 1)
                 THEN F[k - 1] \o SubSeq(file.triangles, 3 * k - 2, 3 * k)
                 ELSE F[k - 1]
    IN  F[Len(file.triangles) \div 3]

\* the vertices of the mesh that are corners of the other triangles
UnsoundCorners(file) ==
    LET Sound(k) == /\ 3 * k + 3 <= Len(file.triangles)
                    /\ \A c \in 1..3 : file.triangles[3 * k + c]
                                          \in 0..(FileVertexCount(file) - 1)
    IN  { file.triangles[j] : j \in { j \in 1..Len(file.triangles) :
                                          ~Sound((j - 1) \div 3) } }
        \cap 0..(FileVertexCount(file) - 1)

\* what an undefined read leaves in a normal it is added to
GarbageNormals == { Zero3, <<1, 1, 1>> }

\* the Mesh that the constructor leaves when the undefined reads of
\* CalculateNormals do not end the process: the sound triangles give their
\* normals, and each vertex of the mesh that is a corner of another triangle
\* has had a normal computed from storage outside the vertex sequence added
GarbledMesh(file, garbage) ==
    LET verts == [k \in 1..FileVertexCount(file) |->
                     FileVertex(file, 3 * (k - 1))]
        summed == CalculateNormals(verts, SoundTriangles(file))
    IN  [vertices |-> [k \in 1..Len(summed) |->
                          IF (k - 1) \in UnsoundCorners(file)
                          THEN Vertex(summed[k].position,
                                      VAdd(summed[k].normal, garbage))
                          ELSE summed[k]],
         indices |-> file.triangles]

\* loader thread k: new Mesh(path) on a file with an index outside
\* [0, vertex_count) or an index count that is no multiple of 3.  No check is
\* made: CalculateNormals reads outside the index or the vertex sequence,
\* which is undefined: the process dies of it, or goes on with a garbled Mesh
LoaderBadTopology(k) ==
    /\ programPc = "running"
    /\ k \in 1..Len(loaders)
    /\ loaders[k].pc = "construct"
    /\ VertexLoopInBounds(loaders[k].file)
    /\ ~TopologyValidFile(loaders[k].file)
    /\ outOfBounds' = outOfBounds \cup ReadOutside(loaders[k].file)
    /\ \/ /\ programPc' = "crashed"
          /\ loaders' = [loaders EXCEPT ![k].pc = "failed"]
          /\ UNCHANGED <<meshVars, subVars, meshIsNull, meshFile,
                         callVertices, callIndices>>
       \/ /\ \E garbage \in GarbageNormals :
                LET m == GarbledMesh(loaders[k].file, garbage)
                IN  /\ vertices' = m.vertices
                    /\ indices' = m.indices
          /\ meshIsNull' = FALSE
          /\ meshFile' = loaders[k].file
          /\ preVertices' = <<>>
          /\ preIndices' = <<>>
          /\ subdivisions' = 0
          /\ loaders' = [loaders EXCEPT ![k].pc = "signal"]
          /\ callVertices' = <<>>
          /\ callIndices' = <<>>
          /\ UNCHANGED programPc
    /\ UNCHANGED <<statVars, isCalculatingStats, didLoadMesh, isLoadingMesh,
                   selections, errorMessage, lateStores, pointVars>>

\* loader threads within the bounds
MaxLoaders == 1 + MaxSelections

NextLoader ==
    \/ \E k \in 1..MaxLoaders : LoaderConstruct(k)
    \/ \E k \in 1..MaxLoaders : LoaderSignal(k)
    \/ \E k \in 1..MaxLoaders : LoaderShortArray(k)
    \/ \E k \in 1..MaxLoaders : LoaderBadTopology(k)

SpecLoader == InitLoader /\ [][NextLoader]_vars

-----------------------------------------------------------------------------
(* Specification of the main loop with its threads: the loader threads, the *)
(* buttons Calculate Statistics and Subdivide, the mesh selection, and the   *)
(* workers and the aggregator of the statistics calls                       *)

\* the files of ./task_input: a triangle, and a square of two triangles
MainFiles ==
    { MeshFile(<<0, 0, 0, 1, 0, 0, 0, 1, 0>>, <<0, 1, 2>>),
      MeshFile(<<0, 0, 0, 1, 0, 0, 0, 1, 0, 1, 1, 0>>, <<0, 1, 2, 1, 3, 2>>) }

InitMain ==
    /\ \E file \in MainFiles : Loading(file)
    /\ hardwareConcurrency \in 0..MaxMainHC

\* the main thread is between two statements of the loop's body, not inside
\* CalculateStatistics
MainIdle == callPc \in {"idle", "returned"}

\* a statistics computation is in flight: CalculateStatistics was called and
\* the aggregator of the call has not set the done flag
StatsInFlight == callPc # "idle" /\ ~aggregator.signalled

\* a use of mesh-> while the unique_ptr is empty: the Stats window of every
\* frame reads mesh->vertices.size(), and the buttons call through mesh
NullMeshUse ==
    /\ programPc = "running"
    /\ MainIdle
    /\ meshIsNull
    /\ programPc' = "crashed"
    /\ UNCHANGED <<meshVars, subVars, statVars, isCalculatingStats, meshIsNull,
                   meshFile, loaders, didLoadMesh, isLoadingMesh, selections,
                   errorMessage, outOfBounds, raceVars, pointVars>>

\* a file is picked in the mesh_selection popup
SelectMesh ==
    /\ programPc = "running"
    /\ MainIdle
    /\ selections < MaxSelections
    /\ didLoadMesh' = FALSE
    /\ isLoadingMesh' = TRUE
    /\ \E file \in MainFiles : loaders' = Append(loaders, NewLoader(file))
    /\ didCalculateStats' = FALSE
    /\ didCalculatePoint' = FALSE
    /\ selections' = selections + 1
    /\ UNCHANGED <<meshVars, subVars, hardwareConcurrency, callVars, futures,
                   aggregator, meshStatistics, isCalculatingStats, meshIsNull,
                   meshFile, programPc, errorMessage, outOfBounds, raceVars,
                   point, rayOrigin, isPointInside>>

\* the mesh loading indicator: if (isLoadingMesh) { if (didLoadMesh)
\* isLoadingMesh = false; }
LoadingIndicator ==
    /\ programPc = "running"
    /\ MainIdle
    /\ isLoadingMesh
    /\ didLoadMesh
    /\ isLoadingMesh' = FALSE
    /\ UNCHANGED <<meshVars, subVars, statVars, isCalculatingStats, meshIsNull,
                   meshFile, loaders, didLoadMesh, selections, programPc,
                   errorMessage, outOfBounds, raceVars, pointVars>>

\* the Calculate Statistics button on a mesh
ClickCalculate ==
    /\ ~meshIsNull
    /\ CallBegin

\* the statistics display: if (didCalculateStats) isCalculatingStats = false
StatsDisplay ==
    /\ programPc = "running"
    /\ MainIdle
    /\ didCalculateStats
    /\ isCalculatingStats
    /\ isCalculatingStats' = FALSE
    /\ UNCHANGED <<meshVars, subVars, statVars, loadVars, raceVars, pointVars>>

\* the Subdivide button on a mesh: no flag is looked at
ClickSubdivide ==
    /\ MainIdle
    /\ ~meshIsNull
    /\ subdivisions < MaxMainSubdiv
    /\ Subdivide

\* the areas that worker w can find for the triangle at its i once the
\* vectors that its references name were changed under it (a data race, and
\* a read of freed storage once a vector was reallocated or the Mesh
\* deleted): the area that the call found, the area of the triangle that is
\* now at i, or the area of whatever the freed storage holds
RacedAreas(w) ==
    (IF futures[w].i + 3 <= Len(callIndices)
     THEN {Area(callVertices, GetTriangle(callIndices, futures[w].i))}
     ELSE {})
    \cup (IF futures[w].i + 3 <= Len(indices)
          THEN {Area(vertices, GetTriangle(indices, futures[w].i))}
          ELSE {})
    \cup {RZero}

\* worker w: one iteration of its loop after the mesh was subdivided or
\* replaced under it; the undefined reads end the process or give an area
WorkerStepRaced(w) ==
    /\ programPc = "running"
    /\ w \in 1..Len(futures)
    /\ MeshTouched
    /\ ~futures[w].ready
    /\ futures[w].i < futures[w].end
    /\ \/ /\ programPc' = "crashed"
          /\ UNCHANGED futures
       \/ /\ \E area \in RacedAreas(w) :
                futures' = [futures EXCEPT
                               ![w].stats = Accumulate(@, area, triangleCount),
                               ![w].i = @ + 3]
          /\ UNCHANGED programPc
    /\ UNCHANGED <<meshVars, subVars, hardwareConcurrency, callVars,
                   aggregator, meshStatistics, didCalculateStats,
                   isCalculatingStats, meshIsNull, meshFile, loaders,
                   didLoadMesh, isLoadingMesh, selections, errorMessage,
                   outOfBounds, raceVars, pointVars>>

\* the aggregator of an earlier call: its write of stats takes effect
LateStore ==
    /\ programPc = "running"
    /\ \E result \in lateStores :
          /\ meshStatistics' = result
          /\ lateStores' = lateStores \ {result}
    /\ UNCHANGED <<meshVars, subVars, hardwareConcurrency, callVars, futures,
                   aggregator, didCalculateStats, isCalculatingStats, loadVars,
                   callVertices, callIndices, pointVars>>

NextMain ==
    \/ NullMeshUse
    \/ SelectMesh
    \/ LoadingIndicator
    \/ ClickCalculate
    \/ StatsDisplay
    \/ ClickSubdivide
    \/ \E k \in 1..MaxLoaders : LoaderConstruct(k)
    \/ \E k \in 1..MaxLoaders : LoaderSignal(k)
    \/ SpawnWorker
    \/ StartAggregator
    \/ Return
    \/ \E w \in 1..MaxWorkers : WorkerStep(w)
    \/ \E w \in 1..MaxWorkers : WorkerStepRaced(w)
    \/ \E w \in 1..MaxWorkers : WorkerReturn(w)
    \/ AggregatorGet
    \/ AggregatorReduced
    \/ AggregatorStore
    \/ AggregatorSignal
    \/ LateStore

SpecMain == InitMain /\ [][NextMain]_vars

\* the same under fair scheduling: the main loop goes on to its next frame and
\* so to the statistics display, and some thread of a statistics call that can
\* take a step does; nothing is assumed of the buttons and the mesh picker
FairMain ==
    /\ WF_vars(StatsDisplay)
    /\ WF_vars(CallProgress \/ \E w \in 1..MaxWorkers : WorkerStepRaced(w))

SpecMainFair == SpecMain /\ FairMain

-----------------------------------------------------------------------------
(* Specification of a caller that makes the calls Subdivide,                *)
(* CalculateStatistics and IsPointInside on a loaded mesh one after         *)
(* another: Subdivide is not called while a statistics computation is in    *)
(* flight.  The point is left at its first value.                           *)

InitCalls ==
    /\ \E file \in MainFiles : Loaded(ConstructMesh(file))
    /\ point = Zero3
    /\ preVertices = <<>>
    /\ preIndices = <<>>
    /\ subdivisions = 0
    /\ hardwareConcurrency \in 0..MaxMainHC
    /\ NoStatistics

\* mesh->Subdivide() between two statistics computations
SubdivideCall ==
    /\ MainIdle
    /\ ~StatsInFlight
    /\ Subdivide

\* the Test Point Local button on a mesh
ClickTestPoint ==
    /\ MainIdle
    /\ TestPoint

NextCalls ==
    \/ SubdivideCall
    \/ ClickCalculate
    \/ StatsDisplay
    \/ ClickTestPoint
    \/ SpawnWorker
    \/ StartAggregator
    \/ Return
    \/ \E w \in 1..MaxWorkers : WorkerStep(w)
    \/ \E w \in 1..MaxWorkers : WorkerReturn(w)
    \/ AggregatorGet
    \/ AggregatorReduced
    \/ AggregatorStore
    \/ AggregatorSignal

SpecCalls == InitCalls /\ [][NextCalls]_vars

-----------------------------------------------------------------------------
(* Properties of Subdivide (checked under SpecSubdivide).  In a state with *)
(* subdivisions > 0 the mesh is the result of Subdivide on the mesh        *)
(* <<preVertices, preIndices>>.                                            *)

Subdivided == subdivisions > 0

\* the source triangles of the latest Subdivide, numbered from 0
SourceTriangles == 0..(TriangleCount(preIndices) - 1)

\* the vertex ids A, B, C of source triangle k
SourceOf(k) == GetTriangle(preIndices, 3 * k)

\* child c (1..4) of source triangle k, as the vertex ids the new index
\* sequence holds for it
ChildOf(k, c) == GetTriangle(indices, 12 * k + 3 * (c - 1))

\* vertex ids appended by the latest Subdivide
AddedVertices == Len(preVertices)..(Len(vertices) - 1)

\* C1: one Subdivide leaves exactly 4 times the triangles and at least the
\* vertices it found; every vertex that existed is still at its index with
\* its position, so every added vertex comes after them.
C1_SubdivideCounts ==
    Subdivided =>
        /\ Len(indices) % 3 = 0
        /\ TriangleCount(indices) = 4 * TriangleCount(preIndices)
        /\ Len(vertices) >= Len(preVertices)
        /\ \A v \in 1..Len(preVertices) :
               vertices[v].position = preVertices[v].position

\* a Subdivide of a mesh with triangles has appended vertices
C1_Witness ==
    /\ Subdivided
    /\ TriangleCount(preIndices) = MaxTris
    /\ Len(vertices) > Len(preVertices)
    /\ Len(preVertices) > 3

EdgeNames == {"AB", "AC", "BC"}

\* the unordered pair of vertex ids of edge e of source triangle k
EdgeEnds(k, e) ==
    LET t == SourceOf(k)
    IN  CASE e = "AB" -> {t.vA, t.vB}
          [] e = "AC" -> {t.vA, t.vC}
          [] e = "BC" -> {t.vB, t.vC}

\* the two children of source triangle k that meet along its edge e, with the
\* corner at which each holds the midpoint of e
ChildrenAlong(k, e) ==
    CASE e = "AB" -> {ChildOf(k, 1).vB, ChildOf(k, 4).vA}
      [] e = "AC" -> {ChildOf(k, 1).vC, ChildOf(k, 3).vA}
      [] e = "BC" -> {ChildOf(k, 3).vB, ChildOf(k, 4).vC}

SourceEdges == { EdgeEnds(k, e) : k \in SourceTriangles, e \in EdgeNames }

\* C2: source triangles that share an edge (the same unordered pair of vertex
\* ids, in either direction) get the same midpoint vertex in the children
\* that meet along it, and no second vertex is created for an edge already
\* split: one vertex is appended per distinct edge.
C2_SharedEdge ==
    Subdivided =>
        /\ \A k \in SourceTriangles, l \in SourceTriangles :
             \A e \in EdgeNames, f \in EdgeNames :
                EdgeEnds(k, e) = EdgeEnds(l, f) =>
                    /\ ChildrenAlong(k, e) = ChildrenAlong(l, f)
                    /\ Cardinality(ChildrenAlong(k, e)) = 1
                    /\ ChildrenAlong(k, e) \subseteq AddedVertices
        /\ Cardinality(AddedVertices) = Cardinality(SourceEdges)

\* two different source triangles share an edge that they traverse in
\* opposite directions
C2_Witness ==
    /\ Subdivided
    /\ \E k \in SourceTriangles, l \in SourceTriangles :
          /\ k # l
          /\ SourceOf(k).vB = SourceOf(l).vC
          /\ SourceOf(k).vC = SourceOf(l).vB
          /\ SourceOf(k).vB # SourceOf(k).vC
          /\ SourceOf(k).vA # SourceOf(l).vA

\* vertex id m is an added vertex placed at the midpoint of vertices a and b
IsMidpoint(m, a, b) ==
    /\ m \in AddedVertices
    /\ VAdd(vertices[m + 1].position, vertices[m + 1].position)
          = VAdd(preVertices[a + 1].position, preVertices[b + 1].position)

Times4(v) == <<4 * v[1], 4 * v[2], 4 * v[3]>>

\* C3: every source triangle (A, B, C) yields, in this order, the children
\* (A, mAB, mAC), (mAC, mAB, mBC), (mAC, mBC, C), (mAB, B, mBC), where mXY is
\* a vertex at the midpoint of X and Y; GetNormal of each child is one
\* quarter of GetNormal of the parent, so winding is preserved.
C3_Children ==
    Subdivided =>
        \A k \in SourceTriangles :
            LET t == SourceOf(k)
                mAB == ChildOf(k, 1).vB
                mAC == ChildOf(k, 1).vC
                mBC == ChildOf(k, 2).vC
            IN  /\ IsMidpoint(mAB, t.vA, t.vB)
                /\ IsMidpoint(mAC, t.vA, t.vC)
                /\ IsMidpoint(mBC, t.vB, t.vC)
                /\ ChildOf(k, 1) = [vA |-> t.vA, vB |-> mAB, vC |-> mAC]
                /\ ChildOf(k, 2) = [vA |-> mAC, vB |-> mAB, vC |-> mBC]
                /\ ChildOf(k, 3) = [vA |-> mAC, vB |-> mBC, vC |-> t.vC]
                /\ ChildOf(k, 4) = [vA |-> mAB, vB |-> t.vB, vC |-> mBC]
                /\ \A c \in 1..4 :
                      Times4(GetNormal(vertices, ChildOf(k, c)))
                         = GetNormal(preVertices, t)

\* a source triangle of nonzero area has been split
C3_Witness ==
    /\ Subdivided
    /\ \E k \in SourceTriangles :
          /\ GetNormal(preVertices, SourceOf(k)) # Zero3
          /\ k > 0

\* v is a positive multiple of n
SameDirection(v, n) == Cross(v, n) = Zero3 /\ Dot(v, n) > 0

\* the face normal of the mesh before the latest Subdivide: that of its
\* first triangle
FaceNormal == GetNormal(preVertices, SourceOf(0))

\* the mesh before the latest Subdivide is planar and consistently wound: it
\* has a triangle, every triangle's normal is a positive multiple of the face
\* normal, and every triangle lies in the plane of the first
PlanarSource ==
    /\ TriangleCount(preIndices) > 0
    /\ \A k \in SourceTriangles :
          /\ SameDirection(GetNormal(preVertices, SourceOf(k)), FaceNormal)
          /\ Dot(VSub(preVertices[SourceOf(k).vA + 1].position,
                      preVertices[SourceOf(0).vA + 1].position), FaceNormal) = 0

\* vertex ids that occur in the index sequence
Referenced == { indices[j] : j \in 1..Len(indices) }

\* C4 as stated: after Subdivide of a planar, consistently wound mesh all
\* vertex normals are positive multiples of the original face normal.
C4_AllVertexNormals ==
    (Subdivided /\ PlanarSource) =>
        \A v \in 1..Len(vertices) : SameDirection(vertices[v].normal, FaceNormal)

\* C4 as amended: after Subdivide of a planar, consistently wound mesh the
\* normal of every vertex that belongs to at least one triangle is a positive
\* multiple of the original face normal.
C4_ReferencedVertexNormals ==
    (Subdivided /\ PlanarSource) =>
        \A v \in Referenced : SameDirection(vertices[v + 1].normal, FaceNormal)

\* a planar mesh of two triangles that share an edge has been subdivided
C4_Witness ==
    /\ Subdivided
    /\ PlanarSource
    /\ TriangleCount(preIndices) >= 2
    /\ Cardinality({ preIndices[j] : j \in 1..Len(preIndices) }) >= 4

-----------------------------------------------------------------------------
(* Properties of CalculateStatistics (checked under SpecStatistics and     *)
(* SpecPartition)                                                          *)

\* the triangles of the mesh, numbered from 0
Triangles == 0..(TriangleCount(indices) - 1)

\* the area of triangle k of the mesh
AreaOf(k) == Area(vertices, GetTriangle(indices, 3 * k))

\* the run is complete: the aggregator has written the result and the flag
Completed == aggregator.pc = "done"

RMin(x, y) == IF RLess(y, x) THEN y ELSE x
RMax(x, y) == IF RLess(x, y) THEN y ELSE x

\* the smallest of the nonzero areas of triangles 0..k-1 (FLT_MAX if none),
\* their largest area, and the sum of area / n over them
RECURSIVE MinNonzeroArea(_)
MinNonzeroArea(k) ==
    IF k = 0 THEN <<FLT_MAX, 1>>
    ELSE IF AreaOf(k - 1) = RZero THEN MinNonzeroArea(k - 1)
    ELSE RMin(MinNonzeroArea(k - 1), AreaOf(k - 1))

RECURSIVE MaxArea(_)
MaxArea(k) ==
    IF k = 0 THEN RZero ELSE RMax(MaxArea(k - 1), AreaOf(k - 1))

RECURSIVE SumOfAreasOver(_, _)
SumOfAreasOver(k, n) ==
    IF k = 0 THEN RZero
    ELSE RAdd(SumOfAreasOver(k - 1, n), RDivInt(AreaOf(k - 1), n))

\* C5: on a mesh of N >= 1 triangles that all have the same nonzero area a,
\* a completed run with W in 1..N workers leaves minArea = maxArea =
\* avgArea = a in the result slot.
C5_IdenticalAreas ==
    \A a \in { AreaOf(k) : k \in Triangles } :
        ( /\ Completed
          /\ threadCount \in 1..TriangleCount(indices)
          /\ a # RZero
          /\ \A k \in Triangles : AreaOf(k) = a )
        => meshStatistics = [minArea |-> a, maxArea |-> a, avgArea |-> a]

\* a run over three triangles of equal nonzero area in two uneven batches is
\* complete
C5_Witness ==
    /\ Completed
    /\ TriangleCount(indices) = 3
    /\ threadCount = 2
    /\ AreaOf(0) # RZero
    /\ \A k \in Triangles : AreaOf(k) = AreaOf(0)

HasZeroAndNonzeroArea ==
    /\ \E k \in Triangles : AreaOf(k) = RZero
    /\ \E k \in Triangles : AreaOf(k) # RZero

ZeroAreaExclusion ==
    /\ meshStatistics.minArea = MinNonzeroArea(TriangleCount(indices))
    /\ meshStatistics.minArea # RZero
    /\ meshStatistics.maxArea = MaxArea(TriangleCount(indices))
    /\ meshStatistics.avgArea =
          SumOfAreasOver(TriangleCount(indices), TriangleCount(indices))

\* C6: when the mesh has zero-area triangles and a triangle of nonzero area,
\* the completed minArea is the smallest nonzero area (never zero), maxArea
\* is the largest area and avgArea the sum of area / T over all T triangles,
\* the zero-area ones included.
C6_ZeroAreaExclusion ==
    (Completed /\ HasZeroAndNonzeroArea) => ZeroAreaExclusion

\* the same, for the runs that started a worker (hardware_concurrency() > 0)
C6_ZeroAreaExclusionWithWorkers ==
    (Completed /\ HasZeroAndNonzeroArea /\ threadCount >= 1) => ZeroAreaExclusion

\* the call has left the spawning loop
Spawned == callPc \in {"detach", "returned"}

\* the triangles handed to worker w
BatchOf(w) ==
    { t \in Triangles : futures[w].start <= 3 * t /\ 3 * t < futures[w].end }

\* C7: with 1 <= W <= T the batch of worker k (0-based) is the range
\* [floor(k*T/W), floor((k+1)*T/W)) of triangles, and the batches cover
\* [0, T) with no overlap and no gap: every triangle is in exactly one.
C7_PartitionCoverage ==
    (callPc # "idle" /\ threadCount >= 1) =>
        /\ threadCount <= triangleCount
        /\ \A w \in 1..Len(futures) :
              /\ futures[w].start = 3 * (((w - 1) * triangleCount) \div threadCount)
              /\ futures[w].end = 3 * ((w * triangleCount) \div threadCount)
        /\ Spawned =>
              /\ Len(futures) = threadCount
              /\ \A t \in Triangles :
                    Cardinality({ w \in 1..Len(futures) : t \in BatchOf(w) }) = 1

\* seven triangles have been handed to three workers
C7_Witness ==
    /\ Spawned
    /\ triangleCount = MaxPartTris
    /\ threadCount = 3
    /\ Len(futures) = 3

\* C8: the call starts W = min(hardware_concurrency, T) workers: never more
\* than there are triangles and never zero when T > 0.
C8_WorkerCount ==
    Spawned =>
        /\ Len(futures) = Min(hardwareConcurrency, TriangleCount(indices))
        /\ Len(futures) <= TriangleCount(indices)
        /\ TriangleCount(indices) > 0 => Len(futures) >= 1

\* the combination of the results of workers 1..w
RECURSIVE ReduceAll(_)
ReduceAll(w) ==
    IF w = 0 THEN TriangleStatistics
    ELSE Reduce(ReduceAll(w - 1), futures[w].stats)

\* C9: whenever the done flag written by the run is true, all W workers have
\* finished and the result slot holds the combination of the W batch results.
C9_DoneAfterReduce ==
    didCalculateStats =>
        /\ Len(futures) = threadCount
        /\ \A w \in 1..Len(futures) : futures[w].ready
        /\ meshStatistics = ReduceAll(Len(futures))

\* C10: the call does not wait: whatever the workers and the aggregator have
\* done, the caller's next step (the next std::async, the creation of the
\* aggregator thread, the detach and return) can be taken.
C10_CallNeverWaits ==
    /\ callPc = "spawn" => ENABLED (SpawnWorker \/ StartAggregator)
    /\ callPc = "detach" => ENABLED Return

\* the call has returned while a worker is unfinished, the aggregator has
\* combined nothing and the done flag is false
C10_Witness ==
    /\ callPc = "returned"
    /\ \E w \in 1..Len(futures) : ~futures[w].ready
    /\ aggregator.pc = "accumulate"
    /\ aggregator.next = 1
    /\ ~didCalculateStats

-----------------------------------------------------------------------------
(* Properties of GetNormal and of the normals (checked under               *)
(* SpecSubdivide)                                                          *)

\* triangle t of the mesh has its corners A, B, C at (0,0,0), (1,0,0),
\* (0,1,0) of the file, in this order
IsReferenceTriangle(t) ==
    /\ vertices[t.vA + 1].position = Scale(<<0, 0, 0>>)
    /\ vertices[t.vB + 1].position = Scale(<<1, 0, 0>>)
    /\ vertices[t.vC + 1].position = Scale(<<0, 1, 0>>)

\* the vector n of the file, as the normal of a triangle whose positions are
\* held in units of 1 / Unit
FileNormal(n) == <<n[1] * Unit * Unit, n[2] * Unit * Unit, n[3] * Unit * Unit>>

\* GetNormal of every triangle at (0,0,0), (1,0,0), (0,1,0) of the loaded mesh
\* is n, and so is the normal the constructor leaves in the vertices of the
\* mesh that this triangle alone makes up
ReferenceNormalIs(n) ==
    subdivisions = 0 =>
        /\ \A k \in Triangles :
              IsReferenceTriangle(GetTriangle(indices, 3 * k)) =>
                  GetNormal(vertices, GetTriangle(indices, 3 * k)) = FileNormal(n)
        /\ indices = <<0, 1, 2>> =>
              \A v \in 1..3 : vertices[v].normal = FileNormal(n)

\* C13 as stated: for the triangle A = (0,0,0), B = (1,0,0), C = (0,1,0),
\* GetNormal returns (0, 0, 1).
C13_NormalPlusZ == ReferenceNormalIs(<<0, 0, 1>>)

\* C13 as amended: for the triangle A = (0,0,0), B = (1,0,0), C = (0,1,0),
\* GetNormal returns (0, 0, -1).
C13_NormalMinusZ == ReferenceNormalIs(<<0, 0, -1>>)

\* the mesh of that single triangle has been loaded
C13_Witness ==
    /\ subdivisions = 0
    /\ indices = <<0, 1, 2>>
    /\ Len(vertices) = 3
    /\ IsReferenceTriangle(GetTriangle(indices, 0))

\* every index is in [0, vertex_count) and the index count is a multiple of 3
TopologyValid(verts, idx) ==
    /\ Len(idx) % 3 = 0
    /\ \A j \in 1..Len(idx) : idx[j] \in 0..(Len(verts) - 1)

\* the triangles of the mesh file the mesh was constructed from
FileTriangleCount == Len(meshFile.triangles) \div 3

\* C17: after k Subdivide calls on a loaded mesh of T triangles the mesh has
\* exactly 4^k * T triangles; each call works on the result of the previous
\* one and leaves a valid mesh.
C17_RepeatedSubdivide ==
    /\ TriangleCount(indices) = (4 ^ subdivisions) * FileTriangleCount
    /\ TopologyValid(vertices, indices)
    /\ Subdivided =>
          TriangleCount(preIndices) = (4 ^ (subdivisions - 1)) * FileTriangleCount

\* a mesh of MaxTris triangles has been subdivided MaxSubdiv times
C17_Witness ==
    /\ subdivisions = MaxSubdiv
    /\ subdivisions >= 2
    /\ FileTriangleCount = MaxTris
    /\ TriangleCount(indices) > TriangleCount(preIndices)

\* the positions j of the index sequence that hold vertex id v
CornersOf(v) == { j \in 1..Len(indices) : indices[j] = v }

\* the sum of GetNormal of the triangles that the positions in S belong to
RECURSIVE SumOfNormals(_)
SumOfNormals(S) ==
    IF S = {} THEN Zero3
    ELSE LET j == CHOOSE x \in S : TRUE
         IN  VAdd(GetNormal(vertices, GetTriangle(indices, 3 * ((j - 1) \div 3))),
                  SumOfNormals(S \ {j}))

\* C19: after construction and after every Subdivide, each vertex's normal is
\* the sum of GetNormal over the triangles of the current index sequence,
\* once per occurrence of the vertex in a triangle; nothing is left of the
\* normals held before.
C19_NormalsFromScratch ==
    \A v \in 1..Len(vertices) :
        vertices[v].normal = SumOfNormals(CornersOf(v - 1))

\* a Subdivide has given a new normal to a vertex that held a nonzero one
C19_Witness ==
    /\ Subdivided
    /\ \E v \in 1..Len(preVertices) :
          /\ preVertices[v].normal # Zero3
          /\ vertices[v].normal # Zero3
          /\ vertices[v].normal # preVertices[v].normal

\* the loop of Subdivide with SubdivideStepNoReset as its body
RECURSIVE SubdivideLoopNoReset(_, _, _, _)
SubdivideLoopNoReset(st, idx, first, last) ==
    IF last <= first THEN st
    ELSE IF last = first + 1 THEN SubdivideStepNoReset(st, idx, 3 * first)
    ELSE LET mid == (first + last) \div 2
             half == SubdivideLoopNoReset(st, idx, first, mid)
         IN  IF half = st
             THEN SubdivideLoopNoReset(st, idx, mid, last)
             ELSE SubdivideLoopNoReset(half, idx, mid, last)

\* the variant of Subdivide that skips the resets and is otherwise the same,
\* the final CalculateNormals included
SubdivideWithoutResets(verts, idx) ==
    LET st == SubdivideLoopNoReset(SubState(verts, <<>>, <<>>), idx, 0,
                                   Iterations(Len(idx)))
    IN  [vertices |-> CalculateNormals(st.vertices, st.newIndices),
         indices |-> st.newIndices]

\* what the variant makes of the mesh that the latest Subdivide was given
VariantMesh == SubdivideWithoutResets(preVertices, preIndices)

\* the normals of a vertex sequence
NormalsOf(verts) == [v \in 1..Len(verts) |-> verts[v].normal]

\* C20 as stated: the variant that skips the resets leaves the same final
\* vertex normals as Subdivide, for every mesh.
C20_ResetsUnobservable ==
    Subdivided =>
        LET variant == VariantMesh
        IN  /\ variant.indices = indices
            /\ NormalsOf(variant.vertices) = NormalsOf(vertices)

\* C20 as amended: the variant leaves the same indices and positions; in
\* every vertex that existed before the call its final normal is that of
\* Subdivide plus the normal the vertex held before the call, and in every
\* added vertex it is that of Subdivide.
C20_ResetsClearOldNormals ==
    Subdivided =>
        LET variant == VariantMesh
        IN  /\ variant.indices = indices
            /\ variant.vertices =
                  [v \in 1..Len(vertices) |->
                      Vertex(vertices[v].position,
                             IF v <= Len(preVertices)
                             THEN VAdd(vertices[v].normal, preVertices[v].normal)
                             ELSE vertices[v].normal)]

\* a mesh with a vertex of nonzero normal has been subdivided
C20_Witness ==
    /\ Subdivided
    /\ \E v \in 1..Len(preVertices) : preVertices[v].normal # Zero3
    /\ Len(vertices) > Len(preVertices)

-----------------------------------------------------------------------------
(* Properties of the constructor (checked under SpecLoader) *)

\* loader thread k has run the constructor on a file whose topology is not
\* valid (and whose "vertices" array the first loop reads within bounds)
BuiltFromInvalid(k) ==
    /\ loaders[k].pc # "construct"
    /\ VertexLoopInBounds(loaders[k].file)
    /\ ~TopologyValidFile(loaders[k].file)

\* C14: a Mesh constructed on data with an index outside [0, vertex_count) or
\* an index count that is no multiple of 3 ends in an 'invalid topology'
\* failure, and the vertex and the index sequence are never read out of
\* bounds.
C14_TopologyDetected ==
    /\ outOfBounds \cap {"vertices", "indices"} = {}
    /\ \A k \in 1..Len(loaders) :
          BuiltFromInvalid(k) =>
              /\ errorMessage = "invalid topology"
              /\ loaders[k].pc = "failed"

-----------------------------------------------------------------------------
(* Properties of IsPointInside on the unit cube (checked under             *)
(* SpecContainment)                                                        *)

\* the mesh is a closed unit cube of 12 triangles, two per face
IsUnitCube == meshFile \in CubeFiles

\* the latest point test was made on the mesh at point p
TestedAt(p) == didCalculatePoint /\ rayOrigin = p

\* C11: on the unit cube, IsPointInside((0.5, 0.5, 0.5)) reports inside.
C11_CentreInside ==
    (IsUnitCube /\ TestedAt(QuarterPoint(2, 2, 2))) => isPointInside

\* what the code does there: the ray from the centre leaves the cube through
\* the edge x = 1, y = 1 and is counted once for each of the two faces that
\* meet in it
C11_CentreCountedTwice ==
    (IsUnitCube /\ TestedAt(QuarterPoint(2, 2, 2))) =>
        /\ IntersectionCount(rayOrigin, vertices, indices) = 2
        /\ ~isPointInside

\* C12: on the unit cube, IsPointInside((2, 2, 2)) reports outside, and no
\* triangle is counted as intersected by the ray.
C12_FarPointOutside ==
    (IsUnitCube /\ TestedAt(QuarterPoint(8, 8, 8))) =>
        /\ ~isPointInside
        /\ IntersectionCount(rayOrigin, vertices, indices) = 0

\* the point (2, 2, 2) has been tested on a cube
C12_Witness ==
    /\ IsUnitCube
    /\ TestedAt(QuarterPoint(8, 8, 8))
    /\ ~isPointInside


-----------------------------------------------------------------------------
(* The main loop and the statistics computation *)

\* a step in which the main loop calls CalculateStatistics
CallBegins == callPc # "spawn" /\ callPc' = "spawn"

\* C15: while a statistics computation is in flight, the vertex and the index
\* sequence of the mesh are neither modified nor replaced
C15_MeshUntouchedInFlight ==
    [][StatsInFlight => UNCHANGED <<vertices, indices>>]_vars

\* C16: at most one statistics computation is in flight: the main loop calls
\* CalculateStatistics only when no earlier call is still to set its done
\* flag, whatever the order of button presses, mesh selections and the
\* aggregator's writes
C16_OneInFlight == [][CallBegins => ~StatsInFlight]_vars

\* a second call has begun: the first one has stored its statistics, a mesh
\* was selected since, and the button was pressed again
C16_Witness ==
    /\ callPc = "spawn"
    /\ selections > 0
    /\ meshStatistics # TriangleStatistics

\* C18: on a loaded mesh with every index in [0, vertex_count) and an index
\* count that is a multiple of 3, every sequence of Subdivide,
\* CalculateStatistics and IsPointInside calls leaves every index in
\* [0, vertex_count) and the index count a multiple of 3
C18_InvariantsKept ==
    ~meshIsNull => /\ Len(indices) % 3 = 0
                   /\ \A j \in 1..Len(indices) :
                         indices[j] \in 0..(Len(vertices) - 1)

\* a mesh that was subdivided, tested for a point, and whose statistics are
\* complete
C18_Witness ==
    /\ subdivisions > 0
    /\ didCalculatePoint
    /\ didCalculateStats
    /\ aggregator.pc = "done"
    /\ Len(indices) > Len(meshFile.triangles)


-----------------------------------------------------------------------------
(* The edge key *)

\* the vertex ids that the latest Subdivide found
SourceIds == 0..(Len(preVertices) - 1)

\* C21: the edge key is symmetric, HashCombine(i, j) = HashCombine(j, i), and
\* injective on unordered pairs (as many keys as unordered pairs of vertex
\* ids); two different unordered edges of the source triangles never get the
\* same midpoint vertex, and Subdivide appends as many vertices as there are
\* distinct unordered pairs among the edges of the source triangles
C21_EdgeKey ==
    Subdivided =>
        /\ \A i \in SourceIds, j \in SourceIds :
              HashCombine(i, j) = HashCombine(j, i)
        /\ Cardinality({ HashCombine(i, j) : i \in SourceIds, j \in SourceIds })
              = Cardinality({ {i, j} : i \in SourceIds, j \in SourceIds })
        /\ \A k \in SourceTriangles, l \in SourceTriangles :
              \A e \in EdgeNames, f \in EdgeNames :
                 EdgeEnds(k, e) # EdgeEnds(l, f) =>
                     ChildrenAlong(k, e) \cap ChildrenAlong(l, f) = {}
        /\ Len(vertices) - Len(preVertices) = Cardinality(SourceEdges)

\* a Subdivide of two triangles on four vertices or more with five distinct
\* edges
C21_Witness ==
    /\ Subdivided
    /\ Len(preVertices) >= 4
    /\ Cardinality(SourceEdges) >= 5


-----------------------------------------------------------------------------
(* The batches *)

\* the number of triangles handed to worker w
BatchTriangles(w) == (futures[w].end - futures[w].start) \div 3

\* C22: with T >= 1 and W = min(hardware_concurrency, T) >= 1, the sizes of
\* any two batches differ by at most 1 and every batch holds a triangle
C22_BalancedBatches ==
    (callPc # "idle" /\ triangleCount >= 1 /\ threadCount >= 1) =>
        \A w \in 1..Len(futures) :
           /\ BatchTriangles(w) >= 1
           /\ \A v \in 1..Len(futures) :
                 BatchTriangles(w) - BatchTriangles(v) <= 1

\* all workers are started, W does not divide T, and two batches differ in
\* size
C22_Witness ==
    /\ Spawned
    /\ threadCount >= 2
    /\ Len(futures) = threadCount
    /\ triangleCount % threadCount # 0
    /\ \E w \in 1..Len(futures), v \in 1..Len(futures) :
          BatchTriangles(w) = BatchTriangles(v) + 1


-----------------------------------------------------------------------------
(* The result and the decomposition *)

\* the statistics that one pass of the worker's loop body over triangles
\* 0..k-1 of the mesh leaves
RECURSIVE SequentialPass(_)
SequentialPass(k) ==
    IF k = 0 THEN TriangleStatistics
    ELSE Accumulate(SequentialPass(k - 1), AreaOf(k - 1),
                    TriangleCount(indices))

\* C23: for every worker count W in 1..T and every order in which the workers
\* finish, the completed minArea, maxArea and (the areas being exact) avgArea
\* are those of a single sequential pass over all triangles
C23_DecompositionIndependent ==
    (Completed /\ threadCount >= 1) =>
        meshStatistics = SequentialPass(TriangleCount(indices))

\* a run of two workers or more is complete on a mesh with two different
\* nonzero areas
C23_Witness ==
    /\ Completed
    /\ threadCount >= 2
    /\ \E k \in Triangles, l \in Triangles :
          /\ AreaOf(k) # RZero
          /\ AreaOf(l) # RZero
          /\ AreaOf(k) # AreaOf(l)


-----------------------------------------------------------------------------
(* The point test and the geometry of the ray *)

\* the normal of triangle k of the mesh, and the vector from its vertex A to
\* the point p
PlaneNormal(k) == GetNormal(vertices, GetTriangle(indices, 3 * k))
FromA(p, k) == VSub(p, vertices[GetTriangle(indices, 3 * k).vA + 1].position)
Sign(x) == IF x > 0 THEN 1 ELSE IF x < 0 THEN -1 ELSE 0

\* the plane of triangle k is parallel to the ray direction
RayParallel(k) == Dot(RayDirection, PlaneNormal(k)) = 0
\* the plane of triangle k holds the point p
PlaneHolds(p, k) == Dot(FromA(p, k), PlaneNormal(k)) = 0
\* the line through p meets the plane of triangle k behind p: p is on the
\* side of the plane that the ray direction points to
PlaneBehind(p, k) ==
    /\ ~RayParallel(k)
    /\ Sign(Dot(FromA(p, k), PlaneNormal(k)))
          = Sign(Dot(RayDirection, PlaneNormal(k)))

\* triangle k is counted by the loop of IsPointInside on p
Counted(p, k) ==
    DoesRayIntersectTriangle(p, RayDirection, vertices,
                             GetTriangle(indices, 3 * k))

\* C24: IsPointInside(P) is true exactly when the number of counted
\* triangles is odd; a triangle whose plane is parallel to the ray direction
\* (1, 1, 0), whose plane is met behind P, or whose plane holds P is never
\* counted, and a mesh with no triangle reports every point outside
C24_CountedTriangles ==
    didCalculatePoint =>
        /\ isPointInside <=>
              Cardinality({ k \in Triangles : Counted(rayOrigin, k) }) % 2 = 1
        /\ \A k \in Triangles :
              ( \/ RayParallel(k)
                \/ PlaneBehind(rayOrigin, k)
                \/ PlaneHolds(rayOrigin, k) ) => ~Counted(rayOrigin, k)
        /\ Triangles = {} => ~isPointInside

\* the point (0.5, 1, 0.5) of the face y = 1 of a cube was tested: faces are
\* parallel to the ray, a face holds the point, and the line through the point
\* meets a triangle behind it
C24_Witness ==
    /\ IsUnitCube
    /\ TestedAt(QuarterPoint(2, 4, 2))
    /\ \E k \in Triangles : RayParallel(k)
    /\ \E k \in Triangles : PlaneHolds(rayOrigin, k) /\ ~RayParallel(k)
    /\ \E k \in Triangles :
          /\ PlaneBehind(rayOrigin, k)
          /\ DoesRayIntersectTriangleLine(rayOrigin, RayDirection, vertices,
                                          GetTriangle(indices, 3 * k))


-----------------------------------------------------------------------------
(* The Triangle view inside Subdivide *)

\* the accesses of the iteration of the latest Subdivide on source triangle k
AccessesOf(k) ==
    StepAccesses(SubdivideLoop(SubState(preVertices, <<>>, <<>>), preIndices,
                               0, k),
                 preIndices, 3 * k)

-----------------------------------------------------------------------------
(* Completion *)

\* C26: under fair scheduling of the workers and the aggregator, every call
\* of CalculateStatistics eventually sets its done flag, for every triangle
\* count and every hardware concurrency (0 included, where no worker is
\* started), and no step of the call or of its threads sets the flag back
C26_EventuallySignalled ==
    /\ (callPc # "idle") ~> didCalculateStats
    /\ [][didCalculateStats => didCalculateStats']_vars

\* a call that started no worker is complete, its flag set
C26_Witness ==
    /\ Completed
    /\ didCalculateStats
    /\ Len(futures) = 0
    /\ threadCount = 0
    /\ callPc = "returned"


-----------------------------------------------------------------------------
(* The busy state of the statistics *)

\* C27: whenever the main loop has started a statistics computation
\* (isCalculatingStats = true), in every interleaving of mesh selections and
\* the aggregator's write of didCalculateStats the main loop eventually sets
\* isCalculatingStats back to false (in a process that is still running)
C27_BusyEnds ==
    (isCalculatingStats /\ programPc = "running")
        ~> (~isCalculatingStats \/ programPc # "running")

-----------------------------------------------------------------------------
(* The displayed statistics *)

\* the Mesh that the latest statistics call was made on has since been
\* deleted by a loader thread, which has put a newly loaded Mesh in its place
CallOnReplacedMesh ==
    /\ callPc # "idle"
    /\ callVertices = <<>>
    /\ callIndices = <<>>
    /\ ~meshIsNull

\* C28: whenever the main loop treats the result slot as valid
\* (didCalculateStats is true), the statistics are those of the mesh selected
\* at that moment, never those of a computation started on a mesh that a
\* later mesh selection has replaced
C28_StatsOfCurrentMesh ==
    (didCalculateStats /\ programPc = "running") => ~CallOnReplacedMesh

-----------------------------------------------------------------------------
(* The sentinel results *)

\* some triangle of the mesh has a nonzero area
HasNonzeroArea == \E k \in Triangles : AreaOf(k) # RZero

\* the divisors of the call are nonzero wherever a division is about to be
\* made: threadCount in the spawning loop (batchSize), triangleCount in the
\* loop of a worker (area / triangleCount)
NoDivisionByZero ==
    /\ ENABLED SpawnWorker => threadCount # 0
    /\ \A w \in 1..Len(futures) :
          futures[w].i < futures[w].end => triangleCount # 0

SentinelResults ==
    /\ NoDivisionByZero
    /\ Completed =>
          /\ ~HasNonzeroArea =>
                /\ meshStatistics.maxArea = RZero
                /\ meshStatistics.avgArea = RZero
                /\ meshStatistics.minArea = <<FLT_MAX, 1>>
          /\ ~RLess(meshStatistics.maxArea, meshStatistics.minArea)
                <=> HasNonzeroArea

\* C29: a run on a mesh of zero triangles, or of triangles that all have
\* zero area, divides by zero nowhere and completes with maxArea = 0,
\* avgArea = 0 and minArea = FLT_MAX; and minArea <= maxArea holds in the
\* completed record exactly when at least one triangle has a nonzero area.
C29_SentinelResults == SentinelResults

\* the same, for the runs in which hardware_concurrency() has not returned 0
C29_SentinelResultsWithWorkers == hardwareConcurrency >= 1 => SentinelResults

-----------------------------------------------------------------------------
(* The constructor's vertex loop (checked under SpecLoader) *)

\* loader thread k has run the constructor's first loop
RanVertexLoop(k) == loaders[k].pc # "construct"

\* loader thread k has put its Mesh in place
Built(k) == loaders[k].pc \in {"signal", "done"} /\ meshFile = loaders[k].file

VertexLoopWithin(k) ==
    /\ RanVertexLoop(k) =>
          VertexLoopIterations(loaders[k].file)
              = Len(loaders[k].file.vertices) \div 3
    /\ Built(k) => Len(vertices) = Len(loaders[k].file.vertices) \div 3

\* C30: for a "vertices" array of n numbers the constructor's first loop
\* makes exactly floor(n / 3) iterations, the Mesh has floor(n / 3) vertices,
\* and no element at a position >= n is read, for n = 0, 1 and 2 (where
\* n - 3 is taken modulo 2^32) as for every other n.
C30_VertexLoopInBounds ==
    /\ "verticesArray" \notin outOfBounds
    /\ \A k \in 1..Len(loaders) : VertexLoopWithin(k)

\* the same, for the arrays of at least 3 numbers
C30_VertexLoopInBoundsFromThree ==
    \A k \in 1..Len(loaders) :
        Len(loaders[k].file.vertices) >= 3 =>
            /\ "verticesArray" \notin outOfBounds
            /\ VertexLoopWithin(k)

=============================================================================
